---- MODULE Spec2Model ----
(***************************************************************************)
(* Model of the metrics registry of src/metrics.h: CounterMetric,          *)
(* AverageMetric and MetricsRegistry with its background worker, the       *)
(* flush cycle (flush_locked), flush_now, register_metric and the          *)
(* destructor.  Threads: the worker started by the constructor, the        *)
(* callers of the registry's public API (the owner "main" also runs the    *)
(* destructor), and the producer threads that hold metric handles.         *)
(***************************************************************************)
EXTENDS Integers, Sequences, FiniteSets, TLC

\* ------------------------------------------------------------------ bounds
\* at most this many metrics are registered
MaxMetrics == 2
\* at most this many flush cycles are started
MaxCycles == 2
\* at most this many increment calls are issued
MaxInc == 1
\* at most this many add calls are issued
MaxAdd == 1

\* on metrics used without a registry: at most this many increment calls
MetricMaxInc == 2
\* on metrics used without a registry: at most this many add calls
MetricMaxAdd == 2

\* with no producer running during a flush: at most this many increment calls
QuietMaxInc == 2
\* with no producer running during a flush: at most this many add calls
QuietMaxAdd == 3

\* largest int, the type of CounterMetric::value_
IntMax == 2147483647

\* ------------------------------------------------------------ the threads
Worker == "worker"
Owner == "main"
Callers == {"main"}
IncProducers == {"pi"}
AddProducers == {"pa"}
Producers == IncProducers \cup AddProducers
Flushers == Callers \cup {Worker}
Threads == Flushers \cup Producers
None == "none"

\* ------------------------------------------------ inputs drawn by callers
Names == {"X", "Y"}
Kinds == {"Counter", "Average"}
Deltas == {1}
AddValues == {2, 4}
QuietDeltas == {5, -1}
MetricDeltas == {1, 2}

VARIABLES
    metrics,     \* MetricsRegistry::metrics_ with each metric's fields
    mutex,       \* holder of MetricsRegistry::mutex_, or None
    stop_flag,   \* MetricsRegistry::stop_flag_
    cond,        \* threads blocked in cond_.wait_for
    sink,        \* write calls made on the file, in order, each with its outcome
    pc,          \* position of every thread
    i,           \* flush_locked's loop position, per thread
    oss,         \* flush_locked's local record buffer, per thread
    arg,         \* arguments of the call a thread is in
    wake,        \* why the worker's last wait_for returned
    cyc,         \* history of the cycle a thread is running
    hist,        \* history per metric: calls issued, totals added, updates lost
    stopInFlight \* history: the destructor was entered while the worker ran a cycle

vars == <<metrics, mutex, stop_flag, cond, sink, pc, i, oss, arg, wake, cyc, hist, stopInFlight>>

\* --------------------------------------------------------- pure functions
IntMin == (0 - IntMax) - 1

\* a + b in the int arithmetic of std::atomic<int>::fetch_add: two's complement
\* wrap, computed without leaving the range of int
AddInt(a, b) ==
    IF b > 0 /\ a > IntMax - b THEN IntMin + ((a - (IntMax - b)) - 1)
    ELSE IF b < 0 /\ a < IntMin - b THEN IntMax - (((IntMin - b) - a) - 1)
    ELSE a + b

Digit(d) == SubSeq(<<"0", "1", "2", "3", "4", "5", "6", "7", "8", "9">>, d + 1, d + 1)

RECURSIVE NatString(_)
NatString(n) == IF n < 10 THEN Digit(n) ELSE NatString(n \div 10) \o Digit(n % 10)

\* std::to_string(int): decimal digits, '-' first when negative
to_string(n) == IF n < 0 THEN <<"-">> \o NatString(0 - n) ELSE NatString(n)

\* hundredths nearest to s/c (ties to even), for s >= 0 and c > 0
Hundredths(s, c) ==
    LET q == (100 * s) \div c
        r == (100 * s) % c
    IN  IF 2 * r > c \/ (2 * r = c /\ q % 2 = 1) THEN q + 1 ELSE q

\* operator<< of a non-negative double with std::fixed, setprecision(2)
Fixed2(h) == NatString(h \div 100) \o <<".">> \o Digit((h % 100) \div 10) \o Digit(h % 10)

\* a get_average that divides in integers
get_average_IntDivision(m) == IF m.count # 0 THEN 100 * (m.sum \div m.count) ELSE 0

\* AverageMetric::get_average, as the hundredths of the value it returns
get_average(m) == IF m.count # 0 THEN Hundredths(m.sum, m.count) ELSE 0

\* IMetric::value_string of either variant
value_string(m) ==
    IF m.kind = "Counter" THEN to_string(m.value) ELSE Fixed2(get_average(m))

\* constructors of CounterMetric and AverageMetric
NewMetric(kind, name) ==
    [kind |-> kind, name |-> name, value |-> 0, sum |-> 0, count |-> 0, owner |-> None]

NewHist ==
    [calls |-> 0, issued |-> 0, lost |-> 0, accValue |-> 0, accSum |-> 0, accCount |-> 0,
     doneSum |-> 0, doneCount |-> 0, fresh |-> TRUE]

EmptyOss == [ts |-> FALSE, fields |-> <<>>, nl |-> FALSE]

NoCycle == [n |-> 0, rendered |-> <<>>, wrote |-> FALSE, reset |-> <<>>, final |-> FALSE]

NoArg == [k |-> 0, v |-> 0, kind |-> None, name |-> None]

\* ------------------------------------------------------------------ state
Init ==
    /\ metrics = <<>>
    /\ mutex = None
    /\ stop_flag = FALSE
    /\ cond = {}
    /\ sink = <<>>
    /\ pc = [t \in Threads |-> IF t = Worker THEN "w_start" ELSE "idle"]
    /\ i = [t \in Flushers |-> 0]
    /\ oss = [t \in Flushers |-> EmptyOss]
    /\ arg = [t \in Callers \cup AddProducers |-> NoArg]
    /\ wake = None
    /\ cyc = [t \in Flushers |-> NoCycle]
    /\ hist = <<>>
    /\ stopInFlight = FALSE

\* ------------------------------------------------------- derived notions
FlushLabels ==
    {"f_time", "f_render", "f_render_avg", "f_write",
     "f_reset", "f_reset_sum", "f_reset_count", "f_ret"}

\* thread t is inside flush_locked
InFlush(t) == pc[t] \in FlushLabels

\* cycles written or on their way to the write, for the cycle bound
CyclesBegun ==
    Len(sink) + Cardinality({t \in Flushers :
        pc[t] \in {"fn_lock", "w_wake", "w_check", "f_time", "f_render", "f_render_avg", "f_write"}})

\* calls issued so far on the metrics of one kind
RECURSIVE CallsOf(_, _)
CallsOf(kind, k) ==
    IF k = 0 THEN 0
    ELSE CallsOf(kind, k - 1) + (IF metrics[k].kind = kind THEN hist[k].calls ELSE 0)

IncCalls == CallsOf("Counter", Len(metrics))
AddCalls == CallsOf("Average", Len(metrics))

\* metric k has been rendered, and not yet reset, by a cycle in flight
InWindow(k) ==
    \E t \in Flushers :
        /\ InFlush(t)
        /\ \E j \in 1..Len(cyc[t].rendered) : cyc[t].rendered[j] = k
        /\ \A j \in 1..Len(cyc[t].reset) : cyc[t].reset[j] # k

\* ---------------------------------------------------------- CounterMetric
\* get(): value_.load()
get(m) == m.value

\* an increment that stores its argument instead of adding it
CounterIncrement_Overwrite(m, v) == [m EXCEPT !.value = v]

\* increment(v): value_.fetch_add(v), one atomic step
CounterIncrement(m, v) == [m EXCEPT !.value = AddInt(m.value, v)]

\* reset() that leaves the value in place
CounterReset_Keep(m) == m

\* reset(): value_.store(0)
CounterReset(m) == [m EXCEPT !.value = 0]

Increment(p, k, d) ==
    /\ pc[p] = "idle"
    /\ metrics[k].kind = "Counter"
    /\ metrics' = [metrics EXCEPT ![k] = CounterIncrement(metrics[k], d)]
    /\ hist' = [hist EXCEPT ![k].calls = @ + 1,
                            ![k].issued = @ + d,
                            ![k].accValue = @ + d,
                            ![k].lost = IF InWindow(k) THEN @ + d ELSE @]
    /\ UNCHANGED <<mutex, stop_flag, cond, sink, pc, i, oss, arg, wake, cyc, stopInFlight>>

\* ---------------------------------------------------------- AverageMetric
\* an AverageMetric whose operations take no mutex_
MetricFree_Always(k) == TRUE

\* the metric's own mutex_ is free
MetricFree(k) == metrics[k].owner = None

AddCall(p, k, v) ==
    /\ pc[p] = "idle"
    /\ metrics[k].kind = "Average"
    /\ arg' = [arg EXCEPT ![p] = [NoArg EXCEPT !.k = k, !.v = v]]
    /\ hist' = [hist EXCEPT ![k].calls = @ + 1]
    /\ pc' = [pc EXCEPT ![p] = "a_lock"]
    /\ UNCHANGED <<metrics, mutex, stop_flag, cond, sink, i, oss, wake, cyc, stopInFlight>>

\* add() that also waits for the registry mutex
CanAddLock_RegistryToo(p) == MetricFree(arg[p].k) /\ mutex = None

\* what add's lock_guard needs before it is acquired
CanAddLock(p) == MetricFree(arg[p].k)

AddLock(p) ==
    /\ pc[p] = "a_lock"
    /\ CanAddLock(p)
    /\ metrics' = [metrics EXCEPT ![arg[p].k].owner = p]
    /\ pc' = [pc EXCEPT ![p] = "a_sum"]
    /\ UNCHANGED <<mutex, stop_flag, cond, sink, i, oss, arg, wake, cyc, hist, stopInFlight>>

AddSum(p) ==
    /\ pc[p] = "a_sum"
    /\ metrics' = [metrics EXCEPT ![arg[p].k].sum = @ + arg[p].v]
    /\ hist' = [hist EXCEPT ![arg[p].k].accSum = @ + arg[p].v]
    /\ pc' = [pc EXCEPT ![p] = "a_count"]
    /\ UNCHANGED <<mutex, stop_flag, cond, sink, i, oss, arg, wake, cyc, stopInFlight>>

AddCount(p) ==
    /\ pc[p] = "a_count"
    /\ metrics' = [metrics EXCEPT ![arg[p].k].count = @ + 1, ![arg[p].k].owner = None]
    /\ hist' = [hist EXCEPT ![arg[p].k].accCount = @ + 1,
                            ![arg[p].k].doneSum = @ + arg[p].v,
                            ![arg[p].k].doneCount = @ + 1]
    /\ pc' = [pc EXCEPT ![p] = "idle"]
    /\ arg' = [arg EXCEPT ![p] = NoArg]
    /\ UNCHANGED <<mutex, stop_flag, cond, sink, i, oss, wake, cyc, stopInFlight>>

\* --------------------------------------------- MetricsRegistry::flush_locked
\* the history of a cycle that starts now
BeginCycle ==
    [NoCycle EXCEPT !.n = Len(metrics), !.final = (IncCalls = MaxInc)]

\* lines 137-143: the timestamp opens the record
FlushTimestamp(t) ==
    /\ pc[t] = "f_time"
    /\ oss' = [oss EXCEPT ![t] = [EmptyOss EXCEPT !.ts = TRUE]]
    /\ i' = [i EXCEPT ![t] = 1]
    /\ pc' = [pc EXCEPT ![t] = "f_render"]
    /\ UNCHANGED <<metrics, mutex, stop_flag, cond, sink, arg, wake, cyc, hist, stopInFlight>>

\* oss << " \"" << name() << "\" " << value_string()
OssField(m) == <<m.name, value_string(m)>>

\* a first loop that stops one metric short
RenderDone_SkipLast(t) == i[t] >= Len(metrics)

\* the first loop has visited every metric
RenderDone(t) == i[t] > Len(metrics)

\* lines 145-148, a Counter: name and value_string in one atomic load
FlushRenderCounter(t) ==
    /\ pc[t] = "f_render"
    /\ ~RenderDone(t)
    /\ metrics[i[t]].kind = "Counter"
    /\ oss' = [oss EXCEPT ![t].fields = Append(@, OssField(metrics[i[t]]))]
    /\ cyc' = [cyc EXCEPT ![t].rendered = Append(@, i[t])]
    /\ i' = [i EXCEPT ![t] = @ + 1]
    /\ UNCHANGED <<metrics, mutex, stop_flag, cond, sink, pc, arg, wake, hist, stopInFlight>>

\* lines 145-148, an Average: get_average takes the metric's mutex_
FlushRenderLock(t) ==
    /\ pc[t] = "f_render"
    /\ ~RenderDone(t)
    /\ metrics[i[t]].kind = "Average"
    /\ MetricFree(i[t])
    /\ metrics' = [metrics EXCEPT ![i[t]].owner = t]
    /\ pc' = [pc EXCEPT ![t] = "f_render_avg"]
    /\ UNCHANGED <<mutex, stop_flag, cond, sink, i, oss, arg, wake, cyc, hist, stopInFlight>>

\* get_average reads sum_ and count_, releases the mutex_, the text is appended
FlushRenderAverage(t) ==
    /\ pc[t] = "f_render_avg"
    /\ oss' = [oss EXCEPT ![t].fields = Append(@, OssField(metrics[i[t]]))]
    /\ metrics' = [metrics EXCEPT ![i[t]].owner = None]
    /\ cyc' = [cyc EXCEPT ![t].rendered = Append(@, i[t])]
    /\ i' = [i EXCEPT ![t] = @ + 1]
    /\ pc' = [pc EXCEPT ![t] = "f_render"]
    /\ UNCHANGED <<mutex, stop_flag, cond, sink, arg, wake, hist, stopInFlight>>

\* line 149: the first loop ends, the newline closes the record
FlushRenderEnd(t) ==
    /\ pc[t] = "f_render"
    /\ RenderDone(t)
    /\ oss' = [oss EXCEPT ![t].nl = TRUE]
    /\ pc' = [pc EXCEPT ![t] = "f_write"]
    /\ UNCHANGED <<metrics, mutex, stop_flag, cond, sink, i, arg, wake, cyc, hist, stopInFlight>>

\* a cycle that goes on to the resets without handing the record to the file
FlushWrite_Omitted(t) ==
    /\ pc[t] = "f_write"
    /\ i' = [i EXCEPT ![t] = 1]
    /\ pc' = [pc EXCEPT ![t] = "f_reset"]
    /\ UNCHANGED <<metrics, mutex, stop_flag, cond, sink, oss, arg, wake, cyc, hist, stopInFlight>>

\* a cycle that gives up, without resetting anything, when the append fails
FlushWrite_AbortOnFailure(t) ==
    /\ pc[t] = "f_write"
    /\ \E ok \in BOOLEAN :
        /\ sink' = Append(sink, [rec |-> oss[t], ok |-> ok])
        /\ pc' = [pc EXCEPT ![t] = IF ok THEN "f_reset" ELSE "f_ret"]
    /\ cyc' = [cyc EXCEPT ![t].wrote = TRUE]
    /\ i' = [i EXCEPT ![t] = 1]
    /\ UNCHANGED <<metrics, mutex, stop_flag, cond, oss, arg, wake, hist, stopInFlight>>

\* lines 151-154: the record is handed to the file; the append may fail silently
FlushWrite(t) ==
    /\ pc[t] = "f_write"
    /\ \E ok \in BOOLEAN : sink' = Append(sink, [rec |-> oss[t], ok |-> ok])
    /\ cyc' = [cyc EXCEPT ![t].wrote = TRUE]
    /\ i' = [i EXCEPT ![t] = 1]
    /\ pc' = [pc EXCEPT ![t] = "f_reset"]
    /\ UNCHANGED <<metrics, mutex, stop_flag, cond, oss, arg, wake, hist, stopInFlight>>

\* the history of metric k once it is reset
ResetHist(h) == [h EXCEPT !.accValue = 0, !.accSum = 0, !.accCount = 0, !.fresh = FALSE]

\* lines 156-159, a Counter: one atomic store
FlushResetCounter(t) ==
    /\ pc[t] = "f_reset"
    /\ i[t] <= Len(metrics)
    /\ metrics[i[t]].kind = "Counter"
    /\ metrics' = [metrics EXCEPT ![i[t]] = CounterReset(@)]
    /\ hist' = [hist EXCEPT ![i[t]] = ResetHist(@)]
    /\ cyc' = [cyc EXCEPT ![t].reset = Append(@, i[t])]
    /\ i' = [i EXCEPT ![t] = @ + 1]
    /\ UNCHANGED <<mutex, stop_flag, cond, sink, pc, oss, arg, wake, stopInFlight>>

\* lines 156-159, an Average: reset takes the metric's mutex_
FlushResetLock(t) ==
    /\ pc[t] = "f_reset"
    /\ i[t] <= Len(metrics)
    /\ metrics[i[t]].kind = "Average"
    /\ MetricFree(i[t])
    /\ metrics' = [metrics EXCEPT ![i[t]].owner = t]
    /\ pc' = [pc EXCEPT ![t] = "f_reset_sum"]
    /\ UNCHANGED <<mutex, stop_flag, cond, sink, i, oss, arg, wake, cyc, hist, stopInFlight>>

\* line 74: sum_ = 0.0
FlushResetSum(t) ==
    /\ pc[t] = "f_reset_sum"
    /\ metrics' = [metrics EXCEPT ![i[t]].sum = 0]
    /\ hist' = [hist EXCEPT ![i[t]].accSum = 0]
    /\ pc' = [pc EXCEPT ![t] = "f_reset_count"]
    /\ UNCHANGED <<mutex, stop_flag, cond, sink, i, oss, arg, wake, cyc, stopInFlight>>

\* a reset() that returns with the metric's mutex_ still held
AverageResetCount_KeepLock(m) == [m EXCEPT !.count = 0]

\* a reset() that forgets count_
AverageResetCount_KeepCount(m) == [m EXCEPT !.owner = None]

\* AverageMetric::reset's last assignment and the release of its mutex_
AverageResetCount(m) == [m EXCEPT !.count = 0, !.owner = None]

\* line 75: count_ = 0, then the lock_guard releases
FlushResetCount(t) ==
    /\ pc[t] = "f_reset_count"
    /\ metrics' = [metrics EXCEPT ![i[t]] = AverageResetCount(@)]
    /\ hist' = [hist EXCEPT ![i[t]].accCount = 0,
                            ![i[t]].doneSum = 0,
                            ![i[t]].doneCount = 0,
                            ![i[t]].fresh = FALSE]
    /\ cyc' = [cyc EXCEPT ![t].reset = Append(@, i[t])]
    /\ i' = [i EXCEPT ![t] = @ + 1]
    /\ pc' = [pc EXCEPT ![t] = "f_reset"]
    /\ UNCHANGED <<mutex, stop_flag, cond, sink, oss, arg, wake, stopInFlight>>

\* the second loop ends: flush_locked is about to return
FlushResetEnd(t) ==
    /\ pc[t] = "f_reset"
    /\ i[t] > Len(metrics)
    /\ pc' = [pc EXCEPT ![t] = "f_ret"]
    /\ UNCHANGED <<metrics, mutex, stop_flag, cond, sink, i, oss, arg, wake, cyc, hist, stopInFlight>>

FlushStep(t) ==
    \/ FlushTimestamp(t)
    \/ FlushRenderCounter(t)
    \/ FlushRenderLock(t)
    \/ FlushRenderAverage(t)
    \/ FlushRenderEnd(t)
    \/ FlushWrite(t)
    \/ FlushResetCounter(t)
    \/ FlushResetLock(t)
    \/ FlushResetSum(t)
    \/ FlushResetCount(t)
    \/ FlushResetEnd(t)

\* ------------------------------------------ MetricsRegistry::register_metric
\* the public API is used only before the owner starts the destructor
Alive == pc[Owner] \notin {"d_lock", "d_stop", "d_notify", "d_unlock", "d_join", "d_done"}

\* line 110: make_shared builds the metric before the lock is taken
RegisterCall(t, kind, name) ==
    /\ pc[t] = "idle"
    /\ Alive
    /\ Len(metrics) + Cardinality({c \in Callers : pc[c] \in {"r_lock", "r_push"}}) < MaxMetrics
    /\ arg' = [arg EXCEPT ![t] = [NoArg EXCEPT !.kind = kind, !.name = name]]
    /\ pc' = [pc EXCEPT ![t] = "r_lock"]
    /\ UNCHANGED <<metrics, mutex, stop_flag, cond, sink, i, oss, wake, cyc, hist, stopInFlight>>

\* a register_metric that takes no lock
CanRegisterLock_Unguarded(t) == TRUE

\* what register_metric's lock_guard needs before it is acquired
CanRegisterLock(t) == mutex = None

\* line 111
RegisterLock(t) ==
    /\ pc[t] = "r_lock"
    /\ CanRegisterLock(t)
    /\ mutex' = t
    /\ pc' = [pc EXCEPT ![t] = "r_push"]
    /\ UNCHANGED <<metrics, stop_flag, cond, sink, i, oss, arg, wake, cyc, hist, stopInFlight>>

\* metrics_.push_back(metric)
PushBack(list, m) == Append(list, m)

\* lines 112-113: push_back, return, the lock_guard releases
RegisterPush(t) ==
    /\ pc[t] = "r_push"
    /\ metrics' = PushBack(metrics, NewMetric(arg[t].kind, arg[t].name))
    /\ hist' = Append(hist, NewHist)
    /\ mutex' = None
    /\ arg' = [arg EXCEPT ![t] = NoArg]
    /\ pc' = [pc EXCEPT ![t] = "idle"]
    /\ UNCHANGED <<stop_flag, cond, sink, i, oss, wake, cyc, stopInFlight>>

\* ------------------------------------------------ MetricsRegistry::flush_now
FlushNowCall(t) ==
    /\ pc[t] = "idle"
    /\ Alive
    /\ CyclesBegun < MaxCycles
    /\ pc' = [pc EXCEPT ![t] = "fn_lock"]
    /\ UNCHANGED <<metrics, mutex, stop_flag, cond, sink, i, oss, arg, wake, cyc, hist, stopInFlight>>

\* a flush_now that takes no lock
CanFlushNowLock_Unguarded(t) == TRUE

\* what flush_now's lock_guard needs before it is acquired
CanFlushNowLock(t) == mutex = None

\* line 118, then flush_locked is entered
FlushNowLock(t) ==
    /\ pc[t] = "fn_lock"
    /\ CanFlushNowLock(t)
    /\ mutex' = t
    /\ cyc' = [cyc EXCEPT ![t] = BeginCycle]
    /\ pc' = [pc EXCEPT ![t] = "f_time"]
    /\ UNCHANGED <<metrics, stop_flag, cond, sink, i, oss, arg, wake, hist, stopInFlight>>

\* lines 116-120, 151-154: flush_now is void, flush_locked never tests the
\* stream and the stream throws nothing: the caller is handed the same outcome
\* whatever became of the append
FlushNowOutcome(t) == "returned"

\* line 120: flush_locked has returned, the lock_guard releases
FlushNowReturn(t) ==
    /\ pc[t] = "f_ret"
    /\ t \in Callers
    /\ mutex' = None
    /\ oss' = [oss EXCEPT ![t] = EmptyOss]
    /\ i' = [i EXCEPT ![t] = 0]
    /\ cyc' = [cyc EXCEPT ![t] = NoCycle]
    /\ pc' = [pc EXCEPT ![t] = "idle"]
    /\ UNCHANGED <<metrics, stop_flag, cond, sink, arg, wake, hist, stopInFlight>>

\* ---------------------------------------------- MetricsRegistry::worker_func
\* what the worker's unique_lock needs before it is acquired
CanWorkerLock == mutex = None

\* line 125: the thread started by the constructor takes the registry mutex
WorkerLock ==
    /\ pc[Worker] = "w_start"
    /\ CanWorkerLock
    /\ mutex' = Worker
    /\ pc' = [pc EXCEPT ![Worker] = "w_loop"]
    /\ UNCHANGED <<metrics, stop_flag, cond, sink, i, oss, arg, wake, cyc, hist, stopInFlight>>

\* line 126: the loop condition
LoopContinues == ~stop_flag

\* line 128: wait_for releases the mutex and blocks, in one atomic step
WorkerWait ==
    /\ pc[Worker] = "w_loop"
    /\ LoopContinues
    /\ mutex' = None
    /\ cond' = cond \cup {Worker}
    /\ wake' = None
    /\ pc' = [pc EXCEPT ![Worker] = "w_wait"]
    /\ UNCHANGED <<metrics, stop_flag, sink, i, oss, arg, cyc, hist, stopInFlight>>

\* line 126 is false: worker_func returns and its unique_lock releases
WorkerExit ==
    /\ pc[Worker] = "w_loop"
    /\ ~LoopContinues
    /\ mutex' = None
    /\ pc' = [pc EXCEPT ![Worker] = "w_done"]
    /\ UNCHANGED <<metrics, stop_flag, cond, sink, i, oss, arg, wake, cyc, hist, stopInFlight>>

\* the flush period elapses while the worker waits
WorkerTimeout ==
    /\ pc[Worker] = "w_wait"
    /\ Worker \in cond
    /\ CyclesBegun < MaxCycles
    /\ cond' = cond \ {Worker}
    /\ wake' = "timeout"
    /\ pc' = [pc EXCEPT ![Worker] = "w_wake"]
    /\ UNCHANGED <<metrics, mutex, stop_flag, sink, i, oss, arg, cyc, hist, stopInFlight>>

\* wait_for may return with neither a timeout nor a notification
WorkerSpurious ==
    /\ pc[Worker] = "w_wait"
    /\ Worker \in cond
    /\ CyclesBegun < MaxCycles
    /\ cond' = cond \ {Worker}
    /\ wake' = "spurious"
    /\ pc' = [pc EXCEPT ![Worker] = "w_wake"]
    /\ UNCHANGED <<metrics, mutex, stop_flag, sink, i, oss, arg, cyc, hist, stopInFlight>>

\* wait_for takes the mutex again before it returns
WorkerReacquire ==
    /\ pc[Worker] = "w_wake"
    /\ CanWorkerLock
    /\ mutex' = Worker
    /\ pc' = [pc EXCEPT ![Worker] = "w_check"]
    /\ UNCHANGED <<metrics, stop_flag, cond, sink, i, oss, arg, wake, cyc, hist, stopInFlight>>

\* a worker that does not look at the stop flag after its wait
StopSeen_Never == FALSE

\* line 129: the condition of the break
StopSeen == stop_flag

\* lines 129-130: break, worker_func returns and its unique_lock releases
WorkerBreak ==
    /\ pc[Worker] = "w_check"
    /\ StopSeen
    /\ mutex' = None
    /\ pc' = [pc EXCEPT ![Worker] = "w_done"]
    /\ UNCHANGED <<metrics, stop_flag, cond, sink, i, oss, arg, wake, cyc, hist, stopInFlight>>

\* line 131: flush_locked is entered with the mutex held
WorkerFlush ==
    /\ pc[Worker] = "w_check"
    /\ ~StopSeen
    /\ cyc' = [cyc EXCEPT ![Worker] = BeginCycle]
    /\ pc' = [pc EXCEPT ![Worker] = "f_time"]
    /\ UNCHANGED <<metrics, mutex, stop_flag, cond, sink, i, oss, arg, wake, hist, stopInFlight>>

\* line 132: flush_locked has returned, back to the loop condition
WorkerFlushReturn ==
    /\ pc[Worker] = "f_ret"
    /\ oss' = [oss EXCEPT ![Worker] = EmptyOss]
    /\ i' = [i EXCEPT ![Worker] = 0]
    /\ cyc' = [cyc EXCEPT ![Worker] = NoCycle]
    /\ pc' = [pc EXCEPT ![Worker] = "w_loop"]
    /\ UNCHANGED <<metrics, mutex, stop_flag, cond, sink, arg, wake, hist, stopInFlight>>

\* -------------------------------------- MetricsRegistry::~MetricsRegistry
\* the owner destroys the registry when no other call on it is in progress
DtorCall ==
    /\ pc[Owner] = "idle"
    /\ \A c \in Callers : pc[c] = "idle"
    /\ stopInFlight' = InFlush(Worker)
    /\ pc' = [pc EXCEPT ![Owner] = "d_lock"]
    /\ UNCHANGED <<metrics, mutex, stop_flag, cond, sink, i, oss, arg, wake, cyc, hist>>

\* a destructor that sets the flag without waiting for the registry mutex
CanDtorLock_Unguarded == TRUE

\* what the destructor's lock_guard needs before it is acquired
CanDtorLock == mutex = None

\* line 98
DtorLock ==
    /\ pc[Owner] = "d_lock"
    /\ CanDtorLock
    /\ mutex' = Owner
    /\ pc' = [pc EXCEPT ![Owner] = "d_stop"]
    /\ UNCHANGED <<metrics, stop_flag, cond, sink, i, oss, arg, wake, cyc, hist, stopInFlight>>

\* line 99
DtorSetStop ==
    /\ pc[Owner] = "d_stop"
    /\ stop_flag' = TRUE
    /\ pc' = [pc EXCEPT ![Owner] = "d_notify"]
    /\ UNCHANGED <<metrics, mutex, cond, sink, i, oss, arg, wake, cyc, hist, stopInFlight>>

\* a destructor that notifies nobody
Notified_Nobody == {}

\* the threads cond_.notify_one() wakes: one of those waiting, if any
Notified == IF cond = {} THEN {} ELSE {CHOOSE w \in cond : TRUE}

\* line 100
DtorNotify ==
    /\ pc[Owner] = "d_notify"
    /\ cond' = cond \ Notified
    /\ wake' = IF Worker \in Notified THEN "notify" ELSE wake
    /\ pc' = [t \in Threads |->
                IF t = Owner THEN "d_unlock"
                ELSE IF t \in Notified THEN "w_wake"
                ELSE pc[t]]
    /\ UNCHANGED <<metrics, mutex, stop_flag, sink, i, oss, arg, cyc, hist, stopInFlight>>

\* line 101: the lock_guard releases
DtorUnlock ==
    /\ pc[Owner] = "d_unlock"
    /\ mutex' = None
    /\ pc' = [pc EXCEPT ![Owner] = "d_join"]
    /\ UNCHANGED <<metrics, stop_flag, cond, sink, i, oss, arg, wake, cyc, hist, stopInFlight>>

\* a destructor that does not wait for the worker
JoinReturns_Detached == TRUE

\* worker_.join() returns once worker_func has returned
JoinReturns == pc[Worker] = "w_done"

\* lines 102-104
DtorJoin ==
    /\ pc[Owner] = "d_join"
    /\ JoinReturns
    /\ pc' = [pc EXCEPT ![Owner] = "d_done"]
    /\ UNCHANGED <<metrics, mutex, stop_flag, cond, sink, i, oss, arg, wake, cyc, hist, stopInFlight>>

\* ------------------------------------------------------- the whole system
WorkerStep ==
    \/ WorkerLock
    \/ WorkerWait
    \/ WorkerExit
    \/ WorkerReacquire
    \/ WorkerBreak
    \/ WorkerFlush
    \/ FlushStep(Worker)
    \/ WorkerFlushReturn

TimerStep ==
    \/ WorkerTimeout
    \/ WorkerSpurious

DtorStep ==
    \/ DtorLock
    \/ DtorSetStop
    \/ DtorNotify
    \/ DtorUnlock
    \/ DtorJoin

CallerStep(t) ==
    \/ RegisterLock(t)
    \/ RegisterPush(t)
    \/ FlushNowLock(t)
    \/ FlushStep(t)
    \/ FlushNowReturn(t)

CallerCall(t) ==
    \/ \E kind \in Kinds, name \in Names : RegisterCall(t, kind, name)
    \/ FlushNowCall(t)

ProducerStep(p) ==
    \/ AddLock(p)
    \/ AddSum(p)
    \/ AddCount(p)

\* the producers' calls, as many as the bounds allow
ProducerCall ==
    \/ /\ IncCalls < MaxInc
       /\ \E p \in IncProducers, k \in 1..Len(metrics), d \in Deltas : Increment(p, k, d)
    \/ /\ AddCalls < MaxAdd
       /\ \E p \in AddProducers, k \in 1..Len(metrics), v \in AddValues : AddCall(p, k, v)

Next ==
    \/ WorkerStep
    \/ TimerStep
    \/ DtorCall
    \/ DtorStep
    \/ \E t \in Callers : CallerCall(t)
    \/ \E t \in Callers : CallerStep(t)
    \/ ProducerCall
    \/ \E p \in AddProducers : ProducerStep(p)

Spec == Init /\ [][Next]_vars

\* the threads are scheduled fairly; no timer is assumed ever to expire, and no
\* caller is assumed ever to make a call
SpecFair ==
    /\ Init
    /\ [][Next]_vars
    /\ WF_vars(WorkerStep)
    /\ WF_vars(DtorStep)
    /\ \A t \in Callers : WF_vars(CallerStep(t))
    /\ \A p \in AddProducers : WF_vars(ProducerStep(p))

\* ------------------------------- producers that pause while a flush runs
\* no flush_now is under way
QuietIdle == \A t \in Callers : pc[t] # "fn_lock" /\ ~InFlush(t)

\* the producers call only between the flushes
QuietProducerCall ==
    /\ QuietIdle
    /\ \/ /\ IncCalls < QuietMaxInc
          /\ \E p \in IncProducers, k \in 1..Len(metrics), d \in QuietDeltas : Increment(p, k, d)
       \/ /\ AddCalls < QuietMaxAdd
          /\ \E p \in AddProducers, k \in 1..Len(metrics), v \in AddValues : AddCall(p, k, v)

\* flush_now is called once the producers have returned (main.cpp joins them first)
QuietFlushNowCall(t) ==
    /\ \A p \in Producers : pc[p] = "idle"
    /\ FlushNowCall(t)

\* the flush period is long: the worker starts, waits, and its timer never expires
NextQuiet ==
    \/ WorkerLock
    \/ WorkerWait
    \/ \E t \in Callers, kind \in Kinds, name \in Names : RegisterCall(t, kind, name)
    \/ \E t \in Callers : QuietFlushNowCall(t)
    \/ \E t \in Callers : CallerStep(t)
    \/ QuietProducerCall
    \/ \E p \in AddProducers : ProducerStep(p)

SpecQuiet == Init /\ [][NextQuiet]_vars

\* ------------------------------------- a registry that is never destroyed
\* The program never reads its file back, so here only the last record handed
\* to it is kept, and calls and periods go on without end. The stop flag is
\* never set, so the worker's two exits are left out.

\* lines 151-154, keeping only the last record
FlushWriteLoop(t) ==
    /\ pc[t] = "f_write"
    /\ \E ok \in BOOLEAN : sink' = <<[rec |-> oss[t], ok |-> ok]>>
    /\ cyc' = [cyc EXCEPT ![t].wrote = TRUE]
    /\ i' = [i EXCEPT ![t] = 1]
    /\ pc' = [pc EXCEPT ![t] = "f_reset"]
    /\ UNCHANGED <<metrics, mutex, stop_flag, cond, oss, arg, wake, hist, stopInFlight>>

FlushStepLoop(t) ==
    \/ FlushTimestamp(t)
    \/ FlushRenderCounter(t)
    \/ FlushRenderLock(t)
    \/ FlushRenderAverage(t)
    \/ FlushRenderEnd(t)
    \/ FlushWriteLoop(t)
    \/ FlushResetCounter(t)
    \/ FlushResetLock(t)
    \/ FlushResetSum(t)
    \/ FlushResetCount(t)
    \/ FlushResetEnd(t)

\* line 117: flush_now is called, any number of times
FlushNowCallLoop(t) ==
    /\ pc[t] = "idle"
    /\ Alive
    /\ pc' = [pc EXCEPT ![t] = "fn_lock"]
    /\ UNCHANGED <<metrics, mutex, stop_flag, cond, sink, i, oss, arg, wake, cyc, hist, stopInFlight>>

\* line 128: the flush period elapses while the worker waits
WorkerTimeoutLoop ==
    /\ pc[Worker] = "w_wait"
    /\ Worker \in cond
    /\ cond' = cond \ {Worker}
    /\ wake' = "timeout"
    /\ pc' = [pc EXCEPT ![Worker] = "w_wake"]
    /\ UNCHANGED <<metrics, mutex, stop_flag, sink, i, oss, arg, cyc, hist, stopInFlight>>

\* line 128: wait_for returns with neither a timeout nor a notification
WorkerSpuriousLoop ==
    /\ pc[Worker] = "w_wait"
    /\ Worker \in cond
    /\ cond' = cond \ {Worker}
    /\ wake' = "spurious"
    /\ pc' = [pc EXCEPT ![Worker] = "w_wake"]
    /\ UNCHANGED <<metrics, mutex, stop_flag, sink, i, oss, arg, cyc, hist, stopInFlight>>

WorkerStepLoop ==
    \/ WorkerLock
    \/ WorkerWait
    \/ WorkerReacquire
    \/ WorkerFlush
    \/ FlushStepLoop(Worker)
    \/ WorkerFlushReturn

CallerStepLoop(t) ==
    \/ RegisterLock(t)
    \/ RegisterPush(t)
    \/ FlushNowLock(t)
    \/ FlushStepLoop(t)
    \/ FlushNowReturn(t)

NextLoop ==
    \/ WorkerStepLoop
    \/ WorkerTimeoutLoop
    \/ WorkerSpuriousLoop
    \/ \E t \in Callers, kind \in Kinds, name \in Names : RegisterCall(t, kind, name)
    \/ \E t \in Callers : FlushNowCallLoop(t)
    \/ \E t \in Callers : CallerStepLoop(t)
    \/ ProducerCall
    \/ \E p \in AddProducers : ProducerStep(p)

\* every thread that can keep stepping does step, and the period always elapses;
\* a thread waiting for a mutex is promised nothing by std::mutex
SpecLoopFair ==
    /\ Init
    /\ [][NextLoop]_vars
    /\ WF_vars(WorkerStepLoop)
    /\ WF_vars(WorkerTimeoutLoop)
    /\ \A t \in Callers : WF_vars(CallerStepLoop(t))
    /\ \A p \in AddProducers : WF_vars(ProducerStep(p))

\* ------------------------------------- metrics used without a registry
\* threads that hold handles to a Counter and an Average of their own making
IncThreads == IncProducers \cup {"pi2"}
AddThreads == AddProducers \cup {"pa2"}
Reader == "rd"
Resetter == "rs"
MetricThreads == IncThreads \cup AddThreads \cup {Reader, Resetter}

\* a fresh CounterMetric and a fresh AverageMetric; no registry is running
InitMetric ==
    /\ metrics = <<NewMetric("Counter", "X"), NewMetric("Average", "Y")>>
    /\ hist = <<NewHist, NewHist>>
    /\ pc = [t \in Threads \cup MetricThreads |-> "idle"]
    /\ arg = [t \in AddThreads \cup {Reader, Resetter} |-> NoArg]
    /\ mutex = None
    /\ stop_flag = FALSE
    /\ cond = {}
    /\ sink = <<>>
    /\ i = [t \in Flushers |-> 0]
    /\ oss = [t \in Flushers |-> EmptyOss]
    /\ wake = None
    /\ cyc = [t \in Flushers |-> NoCycle]
    /\ stopInFlight = FALSE

\* get_average is called through a handle
GetAverageCall(p, k) ==
    /\ pc[p] = "idle"
    /\ metrics[k].kind = "Average"
    /\ arg' = [arg EXCEPT ![p] = [NoArg EXCEPT !.k = k]]
    /\ pc' = [pc EXCEPT ![p] = "g_lock"]
    /\ UNCHANGED <<metrics, mutex, stop_flag, cond, sink, i, oss, wake, cyc, hist, stopInFlight>>

\* line 61
GetAverageLock(p) ==
    /\ pc[p] = "g_lock"
    /\ MetricFree(arg[p].k)
    /\ metrics' = [metrics EXCEPT ![arg[p].k].owner = p]
    /\ pc' = [pc EXCEPT ![p] = "g_read"]
    /\ UNCHANGED <<mutex, stop_flag, cond, sink, i, oss, arg, wake, cyc, hist, stopInFlight>>

\* line 62: the mean is computed and returned, the lock_guard releases
GetAverageRead(p) ==
    /\ pc[p] = "g_read"
    /\ arg' = [arg EXCEPT ![p].v = get_average(metrics[arg[p].k])]
    /\ metrics' = [metrics EXCEPT ![arg[p].k].owner = None]
    /\ pc' = [pc EXCEPT ![p] = "idle"]
    /\ UNCHANGED <<mutex, stop_flag, cond, sink, i, oss, wake, cyc, hist, stopInFlight>>

\* CounterMetric::reset called through a handle: one atomic store
ResetCounter(p, k) ==
    /\ pc[p] = "idle"
    /\ metrics[k].kind = "Counter"
    /\ metrics' = [metrics EXCEPT ![k] = CounterReset(@)]
    /\ hist' = [hist EXCEPT ![k] = ResetHist(@)]
    /\ UNCHANGED <<mutex, stop_flag, cond, sink, pc, i, oss, arg, wake, cyc, stopInFlight>>

\* AverageMetric::reset is called through a handle
ResetCall(p, k) ==
    /\ pc[p] = "idle"
    /\ metrics[k].kind = "Average"
    /\ arg' = [arg EXCEPT ![p] = [NoArg EXCEPT !.k = k]]
    /\ pc' = [pc EXCEPT ![p] = "s_lock"]
    /\ UNCHANGED <<metrics, mutex, stop_flag, cond, sink, i, oss, wake, cyc, hist, stopInFlight>>

\* line 73
ResetLock(p) ==
    /\ pc[p] = "s_lock"
    /\ MetricFree(arg[p].k)
    /\ metrics' = [metrics EXCEPT ![arg[p].k].owner = p]
    /\ pc' = [pc EXCEPT ![p] = "s_sum"]
    /\ UNCHANGED <<mutex, stop_flag, cond, sink, i, oss, arg, wake, cyc, hist, stopInFlight>>

\* line 74
ResetSum(p) ==
    /\ pc[p] = "s_sum"
    /\ metrics' = [metrics EXCEPT ![arg[p].k].sum = 0]
    /\ hist' = [hist EXCEPT ![arg[p].k].accSum = 0]
    /\ pc' = [pc EXCEPT ![p] = "s_count"]
    /\ UNCHANGED <<mutex, stop_flag, cond, sink, i, oss, arg, wake, cyc, stopInFlight>>

\* line 75, then the lock_guard releases
ResetCount(p) ==
    /\ pc[p] = "s_count"
    /\ metrics' = [metrics EXCEPT ![arg[p].k] = AverageResetCount(@)]
    /\ hist' = [hist EXCEPT ![arg[p].k].accCount = 0,
                            ![arg[p].k].doneSum = 0,
                            ![arg[p].k].doneCount = 0,
                            ![arg[p].k].fresh = FALSE]
    /\ pc' = [pc EXCEPT ![p] = "idle"]
    /\ UNCHANGED <<mutex, stop_flag, cond, sink, i, oss, arg, wake, cyc, stopInFlight>>

NextMetric ==
    \/ /\ IncCalls < MetricMaxInc
       /\ \E p \in IncThreads, k \in 1..Len(metrics), d \in MetricDeltas : Increment(p, k, d)
    \/ /\ AddCalls < MetricMaxAdd
       /\ \E p \in AddThreads, k \in 1..Len(metrics), v \in AddValues : AddCall(p, k, v)
    \/ \E p \in AddThreads : ProducerStep(p)
    \/ \E k \in 1..Len(metrics) : GetAverageCall(Reader, k)
    \/ GetAverageLock(Reader)
    \/ GetAverageRead(Reader)
    \/ \E k \in 1..Len(metrics) : ResetCounter(Resetter, k)
    \/ \E k \in 1..Len(metrics) : ResetCall(Resetter, k)
    \/ ResetLock(Resetter)
    \/ ResetSum(Resetter)
    \/ ResetCount(Resetter)

SpecMetric == InitMetric /\ [][NextMetric]_vars

\* ------------------------------------------------- reading the records back
DigitValue(ch) == CHOOSE d \in 0..9 : Digit(d) = <<ch>>

RECURSIVE ParseNat(_)
ParseNat(str) ==
    IF str = <<>> THEN 0
    ELSE 10 * ParseNat(SubSeq(str, 1, Len(str) - 1)) + DigitValue(str[Len(str)])

\* the integer a decimal text denotes
ParseInt(str) == IF Head(str) = "-" THEN 0 - ParseNat(Tail(str)) ELSE ParseNat(str)

\* the text is an Average's rendering: digits, a point, two digits
IsFixed2(str) == Len(str) >= 4 /\ str[Len(str) - 2] = "."

\* the names of a record's fields, in order
FieldNames(rec) == [j \in 1..Len(rec.fields) |-> rec.fields[j][1]]

\* the names of the first n registered metrics, in order
MetricNames(n) == [j \in 1..n |-> metrics[j].name]

\* the value recorded for the metric at position k, over the records handed to the sink
RECURSIVE RecordedUpTo(_, _)
RecordedUpTo(k, n) ==
    IF n = 0 THEN 0
    ELSE RecordedUpTo(k, n - 1)
         + (IF k <= Len(sink[n].rec.fields) THEN ParseInt(sink[n].rec.fields[k][2]) ELSE 0)

Recorded(k) == RecordedUpTo(k, Len(sink))

\* metric m is in the state its constructor gives it
IsReset(m) == m.value = 0 /\ m.sum = 0 /\ m.count = 0

\* the cycle of thread t has run every step
CycleComplete(t) ==
    /\ cyc[t].wrote
    /\ cyc[t].rendered = [j \in 1..cyc[t].n |-> j]
    /\ cyc[t].reset = [j \in 1..cyc[t].n |-> j]

\* the hundredths an Average's rendering denotes
ParseFixed2(str) == ParseNat(SelectSeq(str, LAMBDA ch : ch # "."))

\* |x|
Abs(x) == IF x < 0 THEN 0 - x ELSE x

\* ---------------------------------------------------------------- claims

\* C1: at most one thread is inside flush_locked at any time, that thread holds
\* the registry mutex, and every record handed to the sink is whole (opened by
\* its timestamp and closed by its newline).
C1_OneFlushAtATime ==
    /\ Cardinality({t \in Flushers : InFlush(t)}) <= 1
    /\ \A t \in Flushers : InFlush(t) => mutex = t
    /\ \A j \in 1..Len(sink) : sink[j].rec.ts /\ sink[j].rec.nl

\* a caller's cycle is running while the worker, woken by its timer, wants the mutex
C1_Witness ==
    /\ \E t \in Callers : InFlush(t) /\ cyc[t].rendered # <<>>
    /\ pc[Worker] = "w_wake"
    /\ wake = "timeout"

\* C2 as stated: once the producer has finished and a cycle begun after that has
\* completed, a Counter's recorded values add up to the number of increment(1)
\* calls issued on it (here even with every write to the sink succeeding).
C2_Original ==
    \A t \in Flushers : \A k \in 1..Len(metrics) :
        (/\ pc[t] = "f_ret"
         /\ cyc[t].final
         /\ metrics[k].kind = "Counter"
         /\ hist[k].issued = hist[k].calls
         /\ \A j \in 1..Len(sink) : sink[j].ok)
        => Recorded(k) = hist[k].calls

\* C2 amended: once the producer has finished and a cycle begun after that has
\* completed, a Counter's recorded values add up to the number of increment(1)
\* calls issued on it less those that landed between that counter's render and
\* its reset within a cycle.
C2_RecordedPlusLost ==
    \A t \in Flushers : \A k \in 1..Len(metrics) :
        (/\ pc[t] = "f_ret"
         /\ cyc[t].final
         /\ metrics[k].kind = "Counter"
         /\ hist[k].issued = hist[k].calls)
        => Recorded(k) + hist[k].lost = hist[k].calls

\* the final cycle has completed and an increment was lost in an earlier one
C2_Witness ==
    \E t \in Flushers : \E k \in 1..Len(metrics) :
        /\ pc[t] = "f_ret"
        /\ cyc[t].final
        /\ metrics[k].kind = "Counter"
        /\ hist[k].calls > 0
        /\ hist[k].lost > 0

\* C3 as stated: when flush_locked returns every registered metric is in its
\* reset state.
C3_Original ==
    \A t \in Flushers :
        pc[t] = "f_ret" => \A k \in 1..Len(metrics) : IsReset(metrics[k])

\* C3 amended: when flush_locked returns every registered metric holds exactly
\* the updates that producers landed on it after its own reset in this cycle,
\* so it is in its reset state unless such an update landed.
C3_ResetUpToLaterUpdates ==
    \A t \in Flushers :
        pc[t] = "f_ret" =>
            \A k \in 1..Len(metrics) :
                /\ metrics[k].value = hist[k].accValue
                /\ metrics[k].sum = hist[k].accSum
                /\ metrics[k].count = hist[k].accCount

\* a cycle completes over an Average that had a sample and was reset, and over a
\* Counter that took an increment after its reset
C3_Witness ==
    \E t \in Flushers : \E a, c \in 1..Len(metrics) :
        /\ pc[t] = "f_ret"
        /\ metrics[a].kind = "Average" /\ hist[a].calls > 0 /\ IsReset(metrics[a])
        /\ metrics[c].kind = "Counter" /\ metrics[c].value > 0

\* C4: the record a cycle composes has one field per metric registered when the
\* cycle began, in registration order, duplicates included, each value in its
\* variant's format; every record handed to the sink names a prefix of the
\* registered metrics in order.
C4_OneFieldPerMetricInOrder ==
    /\ \A t \in Flushers :
        pc[t] = "f_write" =>
            /\ oss[t].ts /\ oss[t].nl
            /\ FieldNames(oss[t]) = MetricNames(cyc[t].n)
            /\ \A k \in 1..Len(oss[t].fields) :
                IsFixed2(oss[t].fields[k][2]) <=> metrics[k].kind = "Average"
    /\ \A j \in 1..Len(sink) :
        /\ Len(sink[j].rec.fields) <= Len(metrics)
        /\ FieldNames(sink[j].rec) = MetricNames(Len(sink[j].rec.fields))

\* a record is composed over two metrics of the same name
C4_Witness ==
    \E t \in Flushers :
        /\ pc[t] = "f_write"
        /\ cyc[t].n = 2
        /\ metrics[1].name = metrics[2].name
        /\ metrics[1].kind # metrics[2].kind

\* C5: within a cycle every metric is rendered, in insertion order, before the
\* record is handed to the sink, and the record is handed to the sink before any
\* metric is reset.
C5_RenderThenWriteThenReset ==
    \A t \in Flushers :
        InFlush(t) =>
            /\ \A j \in 1..Len(cyc[t].rendered) : cyc[t].rendered[j] = j
            /\ \A j \in 1..Len(cyc[t].reset) : cyc[t].reset[j] = j
            /\ cyc[t].wrote => Len(cyc[t].rendered) = Len(metrics)
            /\ (cyc[t].reset # <<>> \/ pc[t] \in {"f_reset_sum", "f_reset_count"})
                => cyc[t].wrote /\ Len(cyc[t].rendered) = Len(metrics)

\* a cycle over two metrics has reset the first and not yet the second
C5_Witness ==
    \E t \in Flushers :
        /\ pc[t] = "f_reset"
        /\ cyc[t].n = 2
        /\ Len(cyc[t].reset) = 1

\* C6: the worker leaves flush_locked only by returning from a cycle that ran
\* every step, never straight to its exit; and while the stop flag is set the
\* worker never enters flush_locked.
C6_CycleFinishesNoFlushAfterStop ==
    [][/\ (InFlush(Worker) /\ ~InFlush(Worker)') =>
            (pc[Worker] = "f_ret" /\ CycleComplete(Worker) /\ pc'[Worker] = "w_loop")
       /\ (stop_flag /\ ~InFlush(Worker)) => ~InFlush(Worker)'
      ]_vars

\* the destructor was entered during a worker cycle, and the worker has exited
C6_Witness ==
    /\ stopInFlight
    /\ stop_flag
    /\ pc[Worker] = "w_done"
    /\ Len(sink) >= 1

\* C7: whenever the destructor has returned, worker_func has returned: the
\* worker is in no flush step and holds no mutex.
C7_TeardownSynchronous ==
    pc[Owner] = "d_done" =>
        /\ pc[Worker] = "w_done"
        /\ mutex # Worker
        /\ \A k \in 1..Len(metrics) : metrics[k].owner # Worker

\* the destructor has returned after the worker ran a cycle
C7_Witness ==
    /\ pc[Owner] = "d_done"
    /\ \E j \in 1..Len(sink) : sink[j].rec.fields # <<>>

\* C8: once the stop flag is set the worker reaches its exit and the destructor
\* returns, under fair scheduling of the threads and with no timer expiry assumed.
C8_StopLeadsToExit ==
    stop_flag ~> (pc[Worker] = "w_done" /\ pc[Owner] = "d_done")

\* the worker was woken by the stop notification and the destructor has returned
C8_Witness ==
    /\ wake = "notify"
    /\ pc[Worker] = "w_done"
    /\ pc[Owner] = "d_done"

\* C9: no producer ever holds the registry mutex; while a cycle is in flight an
\* increment is enabled, and an add that cannot take its metric's mutex is kept
\* out by a holder of that very mutex, which, if it is a flushing thread, is in
\* the render or reset step of that one metric.
C9_ProducersNeverWaitOnFlush ==
    /\ mutex \notin Producers
    /\ \A t \in Flushers : \A k \in 1..Len(metrics) :
        metrics[k].owner = t =>
            (pc[t] \in {"f_render_avg", "f_reset_sum", "f_reset_count"} /\ i[t] = k)
    /\ \A p \in IncProducers : \A k \in 1..Len(metrics) :
        (metrics[k].kind = "Counter" /\ IncCalls < MaxInc /\ \E t \in Flushers : InFlush(t))
            => \E d \in Deltas : ENABLED Increment(p, k, d)
    /\ \A p \in AddProducers :
        (pc[p] = "a_lock" /\ ~CanAddLock(p)) =>
            /\ metrics[arg[p].k].owner \in Threads \ {p}
            /\ metrics[arg[p].k].owner \in Flushers => i[metrics[arg[p].k].owner] = arg[p].k

\* an add takes its metric's mutex while a cycle is at the sink write
C9_Witness ==
    \E p \in AddProducers : \E t \in Flushers :
        /\ pc[p] = "a_sum"
        /\ pc[t] = "f_write"
        /\ mutex = t

\* C10: while a cycle is in flight the metric list keeps the length it had when
\* the cycle began and no registration is inside its push_back; when the cycle
\* completes, the metrics it rendered are the metrics it reset, all of them.
C10_RegisterExcludesFlush ==
    \A t \in Flushers :
        InFlush(t) =>
            /\ Len(metrics) = cyc[t].n
            /\ \A c \in Callers : pc[c] # "r_push"
            /\ pc[t] = "f_ret" =>
                (cyc[t].rendered = cyc[t].reset /\ Len(cyc[t].reset) = Len(metrics))

\* a registration waits for the mutex while a cycle is between render and reset
C10_Witness ==
    \E c \in Callers : \E t \in Flushers :
        /\ pc[c] = "r_lock"
        /\ InFlush(t)
        /\ cyc[t].rendered # <<>>
        /\ cyc[t].reset = <<>>

\* C11: with no producer running during the flush, the record flush_now composes
\* holds for each Counter the sum of the deltas incremented since its last reset
\* and for each Average the hundredth nearest to sum/count of the values added
\* since its last reset (0.00 when none); when flush_locked has returned the
\* record is the one handed to the sink and every metric is in its reset state.
C11_QuietFlushNowRecordsTotals ==
    \A t \in Callers :
        /\ pc[t] = "f_write" =>
            /\ Len(oss[t].fields) = Len(metrics)
            /\ \A k \in 1..Len(oss[t].fields) :
                LET text == oss[t].fields[k][2] IN
                IF metrics[k].kind = "Counter"
                THEN ParseInt(text) = hist[k].accValue
                ELSE /\ IsFixed2(text)
                     /\ IF hist[k].accCount = 0
                        THEN ParseFixed2(text) = 0
                        ELSE 2 * Abs(100 * hist[k].accSum - ParseFixed2(text) * hist[k].accCount)
                                <= hist[k].accCount
        /\ pc[t] = "f_ret" =>
            /\ cyc[t].wrote
            /\ sink # <<>> /\ sink[Len(sink)].rec = oss[t]
            /\ \A k \in 1..Len(metrics) : IsReset(metrics[k])

\* a record is composed over a Counter incremented twice and an Average whose
\* mean of three samples is no whole number of hundredths
C11_Witness ==
    \E t \in Callers : \E c, a \in 1..Len(metrics) :
        /\ pc[t] = "f_write"
        /\ metrics[c].kind = "Counter" /\ hist[c].calls = 2 /\ hist[c].accValue = 4
        /\ metrics[a].kind = "Average" /\ hist[a].accCount = 3
        /\ (100 * hist[a].accSum) % 3 # 0

\* C12: a Counter holds the total of the deltas incremented since its last
\* reset, whatever the order in which the threads' increments land; on a Counter
\* never reset that took only increment(1) calls, get() is the number of calls.
C12_NoLostIncrement ==
    \A k \in 1..Len(metrics) :
        metrics[k].kind = "Counter" =>
            /\ get(metrics[k]) = hist[k].accValue
            /\ (hist[k].fresh /\ hist[k].issued = hist[k].calls)
                => get(metrics[k]) = hist[k].calls

\* a Counter never reset has taken two increment(1) calls
C12_Witness ==
    \E k \in 1..Len(metrics) :
        /\ metrics[k].kind = "Counter"
        /\ hist[k].fresh
        /\ hist[k].calls = 2
        /\ hist[k].issued = 2
        /\ get(metrics[k]) = 2

\* C13: whenever get_average reads an Average, count_ is the number of add calls
\* completed since the last reset and sum_ the total of their values, count_ is
\* not negative, and with count_ 0 the mean it reports is 0.
C13_AverageNeverTorn ==
    \A p \in DOMAIN pc :
        pc[p] = "g_read" =>
            LET m == metrics[arg[p].k]
                h == hist[arg[p].k]
            IN  /\ m.count = h.doneCount
                /\ m.sum = h.doneSum
                /\ m.count >= 0
                /\ m.count = 0 => get_average(m) = 0

\* get_average reads an Average holding one sample while a second add and a
\* reset wait for the metric's mutex
C13_Witness ==
    /\ pc[Reader] = "g_read"
    /\ metrics[arg[Reader].k].count = 1
    /\ \E p \in AddThreads : pc[p] = "a_lock" /\ arg[p].k = arg[Reader].k
    /\ pc[Resetter] = "s_lock"

\* the write of the cycle thread t is running has failed
WriteFailed(t) ==
    /\ InFlush(t)
    /\ cyc[t].wrote
    /\ sink # <<>>
    /\ ~sink[Len(sink)].ok

\* C14 as stated: when the write of a cycle run by flush_now has failed, the
\* caller of flush_now is handed an error outcome.
C14_Original ==
    \A t \in Callers :
        (pc[t] = "f_ret" /\ WriteFailed(t)) => FlushNowOutcome(t) = "error"

\* C15: after a failed write the cycle hands nothing more to the sink, it ends
\* only by returning with every metric reset, the worker goes back to its loop
\* and reaches its exit only with the stop flag set, and every cycle that gets
\* to its write hands its own record to the sink.
C15_FailedWriteIsolated ==
    [][/\ \A t \in Flushers :
            /\ WriteFailed(t) =>
                /\ sink' = sink
                /\ ~InFlush(t)' =>
                    /\ pc[t] = "f_ret"
                    /\ CycleComplete(t)
                    /\ pc'[t] = IF t = Worker THEN "w_loop" ELSE "idle"
            /\ (pc[t] = "f_write" /\ pc'[t] # "f_write") =>
                /\ Len(sink') = Len(sink) + 1
                /\ sink'[Len(sink')].rec = oss[t]
       /\ (pc[Worker] # "w_done" /\ pc'[Worker] = "w_done") => stop_flag
      ]_vars

\* after a cycle whose write failed, the worker runs a cycle whose write succeeds
C15_Witness ==
    /\ Len(sink) = 2
    /\ ~sink[1].ok
    /\ sink[2].ok
    /\ pc[Worker] = "f_ret"
    /\ CycleComplete(Worker)
    /\ ~stop_flag

\* C16 as stated: the worker runs a cycle only after a wait that ended because
\* the period expired.
C16_Original ==
    InFlush(Worker) => wake = "timeout"

\* C17: with no cycle in progress, for each Counter the values in the records
\* so far, its current value and the deltas that landed between its render and
\* its reset within a cycle add up to the total of the deltas incremented; so
\* the records never hold more than was incremented.
C17_IncrementsConserved ==
    (\A t \in Flushers : ~InFlush(t)) =>
        \A k \in 1..Len(metrics) :
            metrics[k].kind = "Counter" =>
                /\ Recorded(k) + get(metrics[k]) + hist[k].lost = hist[k].issued
                /\ Recorded(k) <= hist[k].issued

\* between two cycles: an increment is in a record, and the counter is at 0
C17_Witness ==
    /\ \A t \in Flushers : ~InFlush(t)
    /\ \E k \in 1..Len(metrics) :
        /\ metrics[k].kind = "Counter"
        /\ hist[k].issued = 1
        /\ Recorded(k) = 1
        /\ get(metrics[k]) = 0
    /\ Len(sink) = 1

\* the metric mutexes thread t holds
MetricsHeld(t) == {k \in 1..Len(metrics) : metrics[k].owner = t}

\* where a thread is about to lock the registry mutex
RegistryWaits == {"w_start", "w_wake", "fn_lock", "r_lock", "d_lock"}

\* where a thread is inside add, get_average or reset, holding the metric's mutex
MetricHolds == {"f_render_avg", "f_reset_sum", "f_reset_count", "a_sum", "a_count"}

\* thread t has begun something it has not finished (a worker in wait_for is
\* woken by its timer)
Pending(t) == pc[t] \notin {"idle", "w_wait", "w_done", "d_done"}

\* the next step of thread t can be taken now
Runnable(t) ==
    \/ t = Worker /\ ENABLED WorkerStep
    \/ t = Owner /\ ENABLED DtorStep
    \/ t \in Callers /\ ENABLED CallerStep(t)
    \/ t \in AddProducers /\ ENABLED ProducerStep(t)

\* the thread holding what thread t is waiting for
WaitsFor(t) ==
    IF pc[t] \in RegistryWaits THEN mutex
    ELSE IF pc[t] = "d_join" THEN Worker
    ELSE IF pc[t] = "a_lock" THEN metrics[arg[t].k].owner
    ELSE IF pc[t] \in {"f_render", "f_reset"} /\ i[t] <= Len(metrics)
         THEN metrics[i[t]].owner
    ELSE None

\* following at most n waits from thread t leads to a thread that can run
RECURSIVE LeadsToRunnable(_, _)
LeadsToRunnable(t, n) ==
    /\ t \in Threads
    /\ \/ Runnable(t)
       \/ n > 0 /\ Pending(t) /\ LeadsToRunnable(WaitsFor(t), n - 1)

\* C18: a thread holds at most one metric mutex, holds one only inside the
\* metric's own add, get_average or reset (so never while locking the registry
\* mutex or a second metric), a flushing thread holds one only under the
\* registry mutex, and every thread with unfinished work either can run or
\* waits, through a chain of holders, for a thread that can run.
C18_NoDeadlockLockOrder ==
    \A t \in Threads :
        /\ Cardinality(MetricsHeld(t)) <= 1
        /\ MetricsHeld(t) # {} => pc[t] \in MetricHolds
        /\ (MetricsHeld(t) # {} /\ t \in Flushers) => mutex = t
        /\ Pending(t) => LeadsToRunnable(t, Cardinality(Threads))

\* the destructor waits for the registry mutex held by the flushing worker, and
\* the worker for the mutex of an Average held by a producer inside add
C18_Witness ==
    /\ pc[Owner] = "d_lock"
    /\ pc[Worker] \in {"f_render", "f_reset"}
    /\ mutex = Worker
    /\ i[Worker] <= Len(metrics)
    /\ metrics[i[Worker]].kind = "Average"
    /\ metrics[i[Worker]].owner \in AddProducers

\* C19 as stated: with the stop flag never set and the threads scheduled
\* fairly, the worker runs flush cycles again and again, whatever the other
\* threads call.
C19_Original ==
    []<>(pc[Worker] = "f_write")

\* where a thread reads or writes stop_flag_ or metrics_
SharedAccess == FlushLabels \cup {"w_loop", "w_check", "r_push", "d_stop"}

\* C20: a thread reads or writes the stop flag or the metric list only while it
\* holds the registry mutex; the flag changes only in the destructor, never
\* during a flush cycle and never back to false; the worker reaches its exit
\* only from the check after its wait, or from the loop condition before its
\* first wait, and never leaves it.
C20_SharedStateUnderMutex ==
    [][/\ \A t \in Threads : pc[t] \in SharedAccess => mutex = t
       /\ stop_flag' # stop_flag => (pc[Owner] = "d_stop" /\ mutex = Owner)
       /\ metrics' # metrics /\ Len(metrics') # Len(metrics)
            => \E t \in Callers : pc[t] = "r_push" /\ mutex = t
       /\ stop_flag => stop_flag'
       /\ (\E t \in Flushers : InFlush(t)) => stop_flag' = stop_flag
       /\ (pc[Worker] # "w_done" /\ pc'[Worker] = "w_done") =>
            /\ stop_flag
            /\ \/ pc[Worker] = "w_check"
               \/ pc[Worker] = "w_loop" /\ wake = None
       /\ pc[Worker] = "w_done" => pc'[Worker] = "w_done"
      ]_vars

\* the destructor has set the flag under the mutex while the worker, woken
\* after an earlier cycle, waits to take the mutex back
C20_Witness ==
    /\ stop_flag
    /\ pc[Owner] = "d_notify"
    /\ mutex = Owner
    /\ pc[Worker] = "w_wake"
    /\ Len(sink) = 1
    /\ Len(metrics) = 2

====
